---- MODULE Spec2Model ----
(***************************************************************************)
(* Range-adaptive anomaly detector of the SpectraShield dashboard          *)
(* (anomaly_detection.py, duplicated verbatim in final.py).                *)
(*                                                                         *)
(* Number representation.  Powers are whole dB/Hz.  std_threshold is kept  *)
(* in tenths (30 is 3.0), the adjusted threshold in hundredths (180 is     *)
(* 1.80 = 3.0 * 0.6), contamination in hundredths (1 is 0.01).  A float    *)
(* that may be NaN is a record [nan, v]; comparisons with NaN are false.   *)
(* mean and std are kept exactly: mean = S / n and std^2 = Q / (n (n-1))   *)
(* with S the sum and Q = n * sum(x^2) - S^2, so the statistical test is   *)
(* decided in exact arithmetic with multiplications only.                  *)
(***************************************************************************)
EXTENDS Integers, Sequences, FiniteSets, TLC

\* longest scan enumerated sample by sample
MaxLen == 3

\* power readings used to build scans: their pairwise differences hit
\* 0, 1, 2, 8, 10, 11, 12, 13, 20 and 21 dB
Powers == {-50, -42, -40, -30, -29}

\* std_threshold arguments, in tenths: -1.0, 0.0, 1.0 and the default 3.0
Thresholds == {-10, 0, 10, 30}

\* default of the std_threshold parameter (3.0), in tenths
DefaultStdThreshold == 30

\* the five-sample scenario scan [(1,-50),(2,-51),(3,-49),(4,-50),(5,-10)]
ScenarioScan == <<-50, -51, -49, -50, -10>>

\* a power column that did not parse as numbers (dtype object)
NonNumericScan == <<"n/a", "n/a">>

\* scans whose range lies just inside a tier: 7, 9 and 19 dB
EdgeScans == {<<-50, -43>>, <<-50, -41>>, <<-41, -45, -50>>, <<-50, -31>>}

NumericScans ==
    UNION {[1..n -> Powers] : n \in 0..MaxLen} \cup {ScenarioScan} \cup EdgeScans

VARIABLES
    csv,            \* power column of the scan file, in frequency-bin order
    dtype,          \* dtype pandas gave the power column
    data,           \* the DataFrame: column name -> sequence of values
    attrs,          \* data.attrs: statistic name -> value
    std_threshold,  \* argument of the last detect_anomalies call (tenths)
    locals,         \* locals of the last call that were assigned
    outcome,        \* how the last call ended
    view            \* what the last dashboard run put on the page

vars == <<csv, dtype, data, attrs, std_threshold, locals, outcome, view>>

----------------------------------------------------------------------------
\* floats that may be NaN

Num(v) == [nan |-> FALSE, v |-> v]

NaN == [nan |-> TRUE, v |-> 0]

Lt(a, b) == ~a.nan /\ ~b.nan /\ a.v < b.v

Sub(a, b) == IF a.nan \/ b.nan THEN NaN ELSE Num(a.v - b.v)

Empty == [k \in {} |-> 0]

RECURSIVE SeqSum(_)
SeqSum(s) == IF s = <<>> THEN 0 ELSE s[1] + SeqSum(Tail(s))

SeqMax(P) == IF P = <<>> THEN NaN
             ELSE Num(CHOOSE x \in {P[i] : i \in 1..Len(P)} :
                         \A j \in 1..Len(P) : P[j] <= x)

SeqMin(P) == IF P = <<>> THEN NaN
             ELSE Num(CHOOSE x \in {P[i] : i \in 1..Len(P)} :
                         \A j \in 1..Len(P) : P[j] >= x)

\* data["Power_dB/Hz"].max() - data["Power_dB/Hz"].min()
PowerRange(P) == Sub(SeqMax(P), SeqMin(P))

----------------------------------------------------------------------------
\* parameter tiers

\* mutant: the wide tier starts above 20 instead of at 20
Contamination_Le20(power_range) ==
    IF Lt(power_range, Num(10)) THEN 1
    ELSE IF ~power_range.nan /\ power_range.v <= 20 THEN 3
    ELSE 5

Contamination(power_range) ==
    IF Lt(power_range, Num(10)) THEN 1
    ELSE IF Lt(power_range, Num(20)) THEN 3
    ELSE 5

\* mutant: the narrow tier ends at the combination boundary 8
AdjustedStdThreshold_Lt8(power_range, thr) ==
    IF Lt(power_range, Num(8)) THEN thr * 6
    ELSE IF Lt(power_range, Num(20)) THEN thr * 8
    ELSE thr * 10

\* mutant: the narrow tier includes a range of exactly 10
AdjustedStdThreshold_Le10(power_range, thr) ==
    IF ~power_range.nan /\ power_range.v <= 10 THEN thr * 6
    ELSE IF Lt(power_range, Num(20)) THEN thr * 8
    ELSE thr * 10

AdjustedStdThreshold(power_range, thr) ==
    IF Lt(power_range, Num(10)) THEN thr * 6
    ELSE IF Lt(power_range, Num(20)) THEN thr * 8
    ELSE thr * 10

----------------------------------------------------------------------------
\* statistical test

Sum(P) == SeqSum(P)

SumSq(P) == SeqSum([i \in 1..Len(P) |-> P[i] * P[i]])

\* n * sum(x^2) - (sum x)^2 = n (n-1) std^2
QStat(P) == Len(P) * SumSq(P) - Sum(P) * Sum(P)

\* data["Power_dB/Hz"].mean()
Mean(P) == [num |-> Sum(P), den |-> Len(P)]

\* data["Power_dB/Hz"].std(): sample standard deviation (ddof = 1), NaN for
\* a single sample
Std(P) == IF Len(P) < 2 THEN [nan |-> TRUE, sq_num |-> 0, sq_den |-> 1]
          ELSE [nan |-> FALSE, sq_num |-> QStat(P),
                sq_den |-> Len(P) * (Len(P) - 1)]

\* mutant: the threshold is not scaled by the standard deviation
Exceeds_NoStd(d, mean, std, adj) ==
    IF std.nan THEN FALSE ELSE d * 100 > adj * mean.den

\* mutant: a sample on the bound is flagged
Exceeds_Ge(d, mean, std, adj) ==
    LET n == mean.den
        L == d * d * 2500 * (n - 1)
        R == (adj \div 2) * (adj \div 2) * std.sq_num * n
    IN  IF std.nan THEN FALSE
        ELSE IF adj >= 0 THEN d >= 0 /\ L >= R
        ELSE d >= 0 \/ L <= R

\* d / mean.den > (adj / 100) * std, for d = n x - S or S - n x.
\* adj is even (a threshold in tenths times 6, 8 or 10), so both sides of
\* the squared comparison are divided by 4.
Exceeds(d, mean, std, adj) ==
    LET n == mean.den
        L == d * d * 2500 * (n - 1)
        R == (adj \div 2) * (adj \div 2) * std.sq_num * n
    IN  IF std.nan THEN FALSE
        ELSE IF adj >= 0 THEN d > 0 /\ L > R
        ELSE d > 0 \/ L < R

\* mutant: only the upper bound is tested
StdFlag_UpperOnly(x, mean, std, adj) ==
    Exceeds(mean.den * x - mean.num, mean, std, adj)

\* (x > mean + adj * std) | (x < mean - adj * std)
StdFlag(x, mean, std, adj) ==
    \/ Exceeds(mean.den * x - mean.num, mean, std, adj)
    \/ Exceeds(mean.num - mean.den * x, mean, std, adj)

StdColumn(P, mean, std, adj) ==
    [i \in 1..Len(P) |-> StdFlag(P[i], mean, std, adj)]

StdAnomaly(P, adj) == StdColumn(P, Mean(P), Std(P), adj)

----------------------------------------------------------------------------
\* normalisation and density test

\* StandardScaler: z = (x - mean) / population std, the scale being 1 when
\* the variance is 0; z = d / sqrt(q) is kept as the pair [d, q]
Standardize(P, n, sum, q) ==
    [i \in 1..n |-> [d |-> n * P[i] - sum, q |-> q]]

PowerNormalized(P) == Standardize(P, Len(P), Sum(P), QStat(P))

\* position of the contamination percentile among the n sorted scores, in
\* hundredths of an index: offset_ = percentile(scores, 100 * contamination)
PercentilePos(contamination, n) == contamination * (n - 1)

Distinct(P) == {P[i] : i \in 1..Len(P)}

\* the samples whose power occurs once in the scan
Singles(P) == {i \in 1..Len(P) : \A j \in 1..Len(P) : P[j] = P[i] => j = i}

OnlyOutlier(P, o) == [i \in 1..Len(P) |-> IF i = o THEN -1 ELSE 1]

NoOutlier(P) == [i \in 1..Len(P) |-> 1]

\* IsolationForest(contamination).fit_predict.  No random_state is passed,
\* so the forest differs from call to call and the verdicts are a choice.
\* A sample is an outlier when its score is below the percentile offset.
\* Equal powers get equal scores.  While the percentile position is below
\* index 1 (up to 20 samples) the offset lies between the two lowest
\* scores: the sample with the lowest score is the only outlier, and only
\* when no other sample shares its score; at position 0 (one sample) there
\* is none.  With at most two distinct powers every tree has the same
\* shape: the power held by a single sample is isolated first.
IFOutcomes(P, contamination) ==
    IF PercentilePos(contamination, Len(P)) = 0 THEN {NoOutlier(P)}
    ELSE IF Cardinality(Distinct(P)) <= 2
    THEN IF Len(P) >= 3 /\ Singles(P) # {}
         THEN {OnlyOutlier(P, o) : o \in Singles(P)}
         ELSE {NoOutlier(P)}
    ELSE {NoOutlier(P)} \cup {OnlyOutlier(P, o) : o \in Singles(P)}

----------------------------------------------------------------------------
\* combination

\* mutant: agreement is required up to the narrow tier boundary 10
UseAnd_Lt10(power_range) == Lt(power_range, Num(10))

UseAnd(power_range) == Lt(power_range, Num(8))

\* bool.astype(int) * -2 + 1
AsVerdict(b) == (IF b THEN 1 ELSE 0) * (-2) + 1

\* mutant: either test flags whatever the range
AnomalyColumn_Or(power_range, IF_Anomaly, STD_Anomaly) ==
    [i \in DOMAIN IF_Anomaly |->
        AsVerdict((IF_Anomaly[i] = -1) \/ (STD_Anomaly[i] = TRUE))]

AnomalyColumn(power_range, IF_Anomaly, STD_Anomaly) ==
    IF UseAnd(power_range)
    THEN [i \in DOMAIN IF_Anomaly |->
            AsVerdict((IF_Anomaly[i] = -1) /\ (STD_Anomaly[i] = TRUE))]
    ELSE [i \in DOMAIN IF_Anomaly |->
            AsVerdict((IF_Anomaly[i] = -1) \/ (STD_Anomaly[i] = TRUE))]

Count(col, v) == Cardinality({i \in DOMAIN col : col[i] = v})

----------------------------------------------------------------------------
\* the table

\* pd.read_csv(..., names=["Frequency_Hz", "Power_dB/Hz"])
FreshTable(P) ==
    ("Frequency_Hz" :> [i \in 1..Len(P) |-> i]) @@ ("Power_dB/Hz" :> P)

\* mutant: the power column is centred in place when it is normalised
SetColumn_InPlace(tbl, col, values) ==
    [c \in (DOMAIN tbl) \cup {col} |->
        IF c = col THEN values
        ELSE IF c = "Power_dB/Hz" /\ col = "Power_Normalized"
             THEN [i \in DOMAIN values |-> values[i].d]
        ELSE tbl[c]]

\* data[col] = values: adds the column or replaces it
SetColumn(tbl, col, values) ==
    [c \in (DOMAIN tbl) \cup {col} |-> IF c = col THEN values ELSE tbl[c]]

SetAttrs(a, new) ==
    [k \in (DOMAIN a) \cup (DOMAIN new) |->
        IF k \in DOMAIN new THEN new[k] ELSE a[k]]

ParamAttrs(power_range, contamination, adjusted_std_threshold) ==
    [power_range        |-> power_range,
     used_contamination |-> contamination,
     used_std_threshold |-> adjusted_std_threshold]

ParamLocals(power_range, contamination, adjusted_std_threshold) ==
    [power_range            |-> power_range,
     contamination          |-> contamination,
     adjusted_std_threshold |-> adjusted_std_threshold]

\* mutant: the statistical count is taken from the density column
CountAttrs_Swapped(IF_Anomaly, STD_Anomaly, Anomaly) ==
    [if_anomaly_count       |-> Count(IF_Anomaly, -1),
     std_anomaly_count      |-> Count(IF_Anomaly, -1),
     combined_anomaly_count |-> Count(Anomaly, -1)]

CountAttrs(IF_Anomaly, STD_Anomaly, Anomaly) ==
    [if_anomaly_count       |-> Count(IF_Anomaly, -1),
     std_anomaly_count      |-> Count(STD_Anomaly, TRUE),
     combined_anomaly_count |-> Count(Anomaly, -1)]

----------------------------------------------------------------------------
\* the dashboard page (final.py)

\* signal stability classification, lines 364-375
RangeDescription(power_range) ==
    IF Lt(power_range, Num(10)) THEN "Stable"
    ELSE IF Lt(power_range, Num(20)) THEN "Moderate"
    ELSE "Highly Variable"

\* mutant: the page takes the combination boundary from the narrow tier
MethodShown_Lt10(power_range) ==
    IF Lt(power_range, Num(10)) THEN "AND" ELSE "OR"

\* "Method:" of the detection settings, line 458
MethodShown(power_range) ==
    IF Lt(power_range, Num(8)) THEN "AND" ELSE "OR"

\* df[df["Anomaly"] == -1], line 395
AnomalyRows(Anomaly) == {i \in DOMAIN Anomaly : Anomaly[i] = -1}

\* mutant: both operands of the guard are evaluated
ReadsAtTrace_Eager(enable) == TRUE

\* line 410, `enable_anomaly_detection and not anomalies.empty`: the right
\* operand is evaluated only when the left one is true
ReadsAtTrace(enable) == enable

\* lines 447-450: `anomalies` is read inside `if enable_anomaly_detection:`
ReadsAtSection(enable) == enable

\* nothing rendered yet
NoView ==
    [enable |-> FALSE, shown |-> "none", range_description |-> "none",
     assigned |-> FALSE, anomalies |-> {}, name_error |-> FALSE,
     trace |-> FALSE, section |-> "none", method |-> "none",
     total_anomalies |-> 0]

\* lines 357-529 for a non-empty table: `assigned` tells whether line 395
\* bound `anomalies`; a read of the unbound name raises NameError
PageView(enable, power_range, assigned, anomalies) ==
    LET name_error ==
            (ReadsAtTrace(enable) \/ ReadsAtSection(enable)) /\ ~assigned
        found == assigned /\ anomalies # {}
    IN  [enable            |-> enable,
         shown             |-> IF name_error THEN "crash" ELSE "page",
         range_description |-> RangeDescription(power_range),
         assigned          |-> assigned,
         anomalies         |-> anomalies,
         name_error        |-> name_error,
         trace             |-> enable /\ found,
         section           |-> IF ~enable \/ name_error THEN "none"
                               ELSE IF found THEN "analysis" ELSE "info",
         method            |-> IF enable /\ found THEN MethodShown(power_range)
                               ELSE "none",
         total_anomalies   |-> IF enable /\ found THEN Cardinality(anomalies)
                               ELSE 0]

----------------------------------------------------------------------------
Init ==
    /\ \/ dtype = "float64" /\ csv \in NumericScans
       \/ dtype = "object" /\ csv = NonNumericScan
    /\ data = FreshTable(csv)
    /\ attrs = Empty
    /\ std_threshold = DefaultStdThreshold
    /\ locals = Empty
    /\ outcome = "none"
    /\ view = NoView

\* the dashboard parses the scan file again on every rerun
ReadCsv ==
    /\ outcome # "none"
    /\ data' = FreshTable(csv)
    /\ attrs' = Empty
    /\ locals' = Empty
    /\ outcome' = "none"
    /\ UNCHANGED <<csv, dtype, std_threshold, view>>

\* a power column of strings: max() - min() raises TypeError on line 19,
\* before anything is stored
DetectTypeError(thr) ==
    /\ dtype = "object"
    /\ std_threshold' = thr
    /\ locals' = Empty
    /\ outcome' = "TypeError"
    /\ UNCHANGED <<csv, dtype, data, attrs, view>>

\* lines 19-39: the range is computed, the parameters are selected and
\* stored
SelectParams(power_range, contamination, adjusted_std_threshold) ==
    attrs' = SetAttrs(attrs,
                ParamAttrs(power_range, contamination, adjusted_std_threshold))

\* an empty scan: max() and min() are NaN, the parameters are selected and
\* stored, then StandardScaler.fit_transform rejects the empty array
FailInScaler(power_range, contamination, adjusted_std_threshold) ==
    /\ SelectParams(power_range, contamination, adjusted_std_threshold)
    /\ locals' = ParamLocals(power_range, contamination,
                             adjusted_std_threshold)
    /\ outcome' = "ValueError"
    /\ UNCHANGED <<csv, dtype, data, view>>

DetectValueError(thr) ==
    /\ dtype = "float64"
    /\ Len(data["Power_dB/Hz"]) = 0
    /\ std_threshold' = thr
    /\ FailInScaler(PowerRange(data["Power_dB/Hz"]),
                    Contamination(PowerRange(data["Power_dB/Hz"])),
                    AdjustedStdThreshold(PowerRange(data["Power_dB/Hz"]), thr))

\* the four derived columns written on lines 43, 47, 52 and 59-62
WithColumns(tbl, P, IF_Anomaly, STD_Anomaly, Anomaly) ==
    SetColumn(SetColumn(SetColumn(SetColumn(tbl,
        "Power_Normalized", PowerNormalized(P)),
        "IF_Anomaly", IF_Anomaly),
        "STD_Anomaly", STD_Anomaly),
        "Anomaly", Anomaly)

\* the statistics written on lines 22, 38-39 and 65-67
WithStats(a, power_range, contamination, adj, IF_Anomaly, STD_Anomaly, Anomaly) ==
    SetAttrs(SetAttrs(a, ParamAttrs(power_range, contamination, adj)),
             CountAttrs(IF_Anomaly, STD_Anomaly, Anomaly))

\* the locals of a call that ran to its return
ReturnLocals(P, power_range, contamination, adjusted_std_threshold) ==
    SetAttrs(ParamLocals(power_range, contamination, adjusted_std_threshold),
             [model              |-> [contamination |-> contamination],
              mean               |-> Mean(P),
              std                |-> Std(P),
              std_test_threshold |-> adjusted_std_threshold])

\* lines 57-69: the verdicts are combined, the columns and counts stored
Combine(P, power_range, contamination, adj, IF_Anomaly, STD_Anomaly, Anomaly) ==
    /\ data' = WithColumns(data, P, IF_Anomaly, STD_Anomaly, Anomaly)
    /\ attrs' = WithStats(attrs, power_range, contamination, adj,
                          IF_Anomaly, STD_Anomaly, Anomaly)

\* lines 41-53: normalisation, density test and statistical test
RunTests(P, power_range, contamination, adjusted_std_threshold, STD_Anomaly) ==
    /\ \E IF_Anomaly \in IFOutcomes(P, contamination) :
          Combine(P, power_range, contamination, adjusted_std_threshold,
                  IF_Anomaly, STD_Anomaly,
                  AnomalyColumn(power_range, IF_Anomaly, STD_Anomaly))
    /\ locals' = ReturnLocals(P, power_range, contamination,
                              adjusted_std_threshold)
    /\ outcome' = "returned"
    /\ UNCHANGED <<csv, dtype, view>>

WithParams(P, power_range, thr) ==
    RunTests(P, power_range, Contamination(power_range),
             AdjustedStdThreshold(power_range, thr),
             StdAnomaly(P, AdjustedStdThreshold(power_range, thr)))

DetectReturn(thr) ==
    /\ dtype = "float64"
    /\ Len(data["Power_dB/Hz"]) > 0
    /\ std_threshold' = thr
    /\ WithParams(data["Power_dB/Hz"], PowerRange(data["Power_dB/Hz"]), thr)

DetectAnomalies(thr) ==
    \/ DetectTypeError(thr)
    \/ DetectValueError(thr)
    \/ DetectReturn(thr)

Next ==
    \/ ReadCsv
    \/ \E thr \in Thresholds : DetectAnomalies(thr)

Spec == Init /\ [][Next]_vars

----------------------------------------------------------------------------
\* one run of the dashboard script over the scan file

\* the power column holds strings: power_max - power_min raises TypeError
\* on line 361, outside the try of lines 346-356
RenderTypeError(enable) ==
    /\ dtype = "object"
    /\ data' = FreshTable(csv)
    /\ attrs' = Empty
    /\ locals' = Empty
    /\ outcome' = "none"
    /\ view' = [NoView EXCEPT !.enable = enable, !.shown = "crash"]
    /\ UNCHANGED <<csv, dtype, std_threshold>>

\* df.empty: the warning of line 531
RenderNoData(enable) ==
    /\ dtype = "float64"
    /\ Len(csv) = 0
    /\ data' = FreshTable(csv)
    /\ attrs' = Empty
    /\ locals' = Empty
    /\ outcome' = "none"
    /\ view' = [NoView EXCEPT !.enable = enable, !.shown = "warning"]
    /\ UNCHANGED <<csv, dtype, std_threshold>>

\* the toggle is off: lines 393-395 are skipped
RenderOff(enable) ==
    /\ ~enable
    /\ dtype = "float64"
    /\ Len(csv) > 0
    /\ data' = FreshTable(csv)
    /\ attrs' = Empty
    /\ locals' = Empty
    /\ outcome' = "none"
    /\ view' = PageView(FALSE, PowerRange(csv), FALSE, {})
    /\ UNCHANGED <<csv, dtype, std_threshold>>

\* lines 393-529 once detect_anomalies(df) has returned
ShowDetected(P, power_range, contamination, adj, IF_Anomaly, STD_Anomaly, Anomaly) ==
    /\ data' = WithColumns(FreshTable(P), P, IF_Anomaly, STD_Anomaly, Anomaly)
    /\ attrs' = WithStats(Empty, power_range, contamination, adj,
                          IF_Anomaly, STD_Anomaly, Anomaly)
    /\ view' = PageView(TRUE, power_range, TRUE, AnomalyRows(Anomaly))

\* df = detect_anomalies(df) with the default threshold, line 394
RenderTests(P, power_range, contamination, adjusted_std_threshold, STD_Anomaly) ==
    /\ \E IF_Anomaly \in IFOutcomes(P, contamination) :
          ShowDetected(P, power_range, contamination, adjusted_std_threshold,
                       IF_Anomaly, STD_Anomaly,
                       AnomalyColumn(power_range, IF_Anomaly, STD_Anomaly))
    /\ locals' = ReturnLocals(P, power_range, contamination,
                              adjusted_std_threshold)
    /\ outcome' = "returned"
    /\ std_threshold' = DefaultStdThreshold
    /\ UNCHANGED <<csv, dtype>>

RenderDetect(P, power_range) ==
    RenderTests(P, power_range, Contamination(power_range),
                AdjustedStdThreshold(power_range, DefaultStdThreshold),
                StdAnomaly(P, AdjustedStdThreshold(power_range,
                                                   DefaultStdThreshold)))

\* the toggle is on
RenderOn(enable) ==
    /\ enable
    /\ dtype = "float64"
    /\ Len(csv) > 0
    /\ RenderDetect(csv, PowerRange(csv))

Render(enable) ==
    \/ RenderTypeError(enable)
    \/ RenderNoData(enable)
    \/ RenderOff(enable)
    \/ RenderOn(enable)

NextDash == \E enable \in BOOLEAN : Render(enable)

SpecDash == Init /\ [][NextDash]_vars

----------------------------------------------------------------------------
\* vocabulary of the properties

Returned == outcome = "returned"

Called == outcome # "none"

Power == data["Power_dB/Hz"]

Samples == 1..Len(Power)

\* max(power) - min(power) of a non-empty numeric scan, taken over all pairs
Spread ==
    CHOOSE d \in {Power[i] - Power[j] : i, j \in Samples} :
        \A i, j \in Samples : Power[i] - Power[j] <= d

if_flag(i) == data["IF_Anomaly"][i] = -1

std_flag(i) == data["STD_Anomaly"][i]

Anomalous(i) == data["Anomaly"][i] = -1

NarrowParams ==
    /\ attrs.used_contamination = 1
    /\ attrs.used_std_threshold = 6 * std_threshold

DerivedColumns == {"Power_Normalized", "IF_Anomaly", "STD_Anomaly", "Anomaly"}

ParamKeys == {"power_range", "used_contamination", "used_std_threshold"}

----------------------------------------------------------------------------
\* C1 as stated: a scan with 8 <= power_range < 10 is combined with AND (a
\* sample is anomalous only when both tests flag it) under the narrow-range
\* parameters 0.01 and 0.6 * std_threshold.
C1_AndBetween8And10 ==
    (Returned /\ Spread >= 8 /\ Spread < 10) =>
        /\ \A i \in Samples : Anomalous(i) <=> (if_flag(i) /\ std_flag(i))
        /\ NarrowParams

\* C1 amended: a scan with 8 <= power_range < 10 is combined with OR (a
\* sample is anomalous exactly when at least one test flags it) under the
\* narrow-range parameters 0.01 and 0.6 * std_threshold.
C1_OrBetween8And10 ==
    (Returned /\ Spread >= 8 /\ Spread < 10) =>
        /\ \A i \in Samples : Anomalous(i) <=> (if_flag(i) \/ std_flag(i))
        /\ NarrowParams

\* a 9 dB scan in which a sample flagged by one test only is anomalous
C1_Witness ==
    /\ Returned
    /\ Spread = 9
    /\ \E i \in Samples : std_flag(i) /\ ~if_flag(i) /\ Anomalous(i)

\* C2: below 8 dB a sample is anomalous exactly when both tests flag it,
\* from 8 dB on exactly when at least one does; a sample neither test
\* flagged is never anomalous.
C2_CombinationPolicy ==
    Returned =>
        \A i \in Samples :
            /\ Spread < 8 => (Anomalous(i) <=> (if_flag(i) /\ std_flag(i)))
            /\ Spread >= 8 => (Anomalous(i) <=> (if_flag(i) \/ std_flag(i)))
            /\ Anomalous(i) => (if_flag(i) \/ std_flag(i))

\* a scan below 8 dB where the density test alone flags a sample, which
\* stays normal
C2_Witness ==
    /\ Returned
    /\ Spread < 8
    /\ \E i \in Samples : if_flag(i) /\ ~std_flag(i) /\ ~Anomalous(i)

\* C3: below 10 dB the call records contamination 0.01 and threshold
\* 0.6 * std_threshold, and the same two values are what the isolation
\* forest and the statistical test of that call were given.
C3_NarrowTier ==
    (Returned /\ Spread < 10) =>
        /\ NarrowParams
        /\ locals.model.contamination = attrs.used_contamination
        /\ locals.std_test_threshold = attrs.used_std_threshold
        /\ data["STD_Anomaly"] = StdColumn(Power, locals.mean, locals.std,
                                           6 * std_threshold)

\* an 8 dB scan of three samples run with a negative threshold
C3_Witness ==
    /\ Returned
    /\ Spread = 8
    /\ Len(Power) = 3
    /\ std_threshold = -10
    /\ attrs.used_std_threshold = -60

\* C4: from 20 dB on, exactly 20 included, the call records contamination
\* 0.05 and the threshold unchanged.
C4_WideTier ==
    (Returned /\ Spread >= 20) =>
        /\ attrs.used_contamination = 5
        /\ attrs.used_std_threshold = 10 * std_threshold

\* a scan of exactly 20 dB
C4_Witness ==
    /\ Returned
    /\ Spread = 20
    /\ attrs.used_contamination = 5

\* C5: from 10 dB (included) to 20 dB (excluded) the call records
\* contamination 0.03 and threshold 0.8 * std_threshold; exactly 10 dB never
\* gets 0.01 / 0.6.
C5_MiddleTier ==
    (Returned /\ Spread >= 10 /\ Spread < 20) =>
        /\ attrs.used_contamination = 3
        /\ attrs.used_std_threshold = 8 * std_threshold
        /\ attrs.used_contamination # 1
        /\ std_threshold # 0 => attrs.used_std_threshold # 6 * std_threshold

\* a scan of exactly 10 dB run with the default threshold
C5_Witness ==
    /\ Returned
    /\ Spread = 10
    /\ std_threshold = DefaultStdThreshold
    /\ attrs.used_std_threshold = 240

\* C6 as stated: on the scenario scan with the default threshold the
\* statistical test flags the fifth sample (5, -10).
C6_ScenarioFlagged ==
    (Returned /\ Power = ScenarioScan /\ std_threshold = DefaultStdThreshold)
        => std_flag(5)

\* C6 amended: on the scenario scan with the default threshold (power_range
\* 41, adjusted threshold 3.0) the statistical test flags no sample, the
\* fifth included: it lies 32 dB from the mean -42, within 3.0 sample
\* standard deviations (3 * 17.9).
C6_ScenarioNotFlagged ==
    (Returned /\ Power = ScenarioScan /\ std_threshold = DefaultStdThreshold)
        => /\ attrs.used_std_threshold = 300
           /\ \A i \in Samples : ~std_flag(i)
           /\ attrs.std_anomaly_count = 0

\* the scenario scan after a run with the default threshold
C6_Witness ==
    /\ Returned
    /\ Power = ScenarioScan
    /\ std_threshold = DefaultStdThreshold
    /\ attrs.power_range = Num(41)

\* C7 as stated: a call on a scan of fewer than 2 samples ends in
\* InsufficientDataError and never returns a flagged table.
C7_InsufficientData ==
    (Called /\ dtype = "float64" /\ Len(Power) < 2) =>
        outcome = "InsufficientDataError"

\* C8 as stated: a call with a std_threshold that is not positive ends in
\* InvalidParameterError and computes no adjusted threshold or flags.
C8_InvalidParameter ==
    (Called /\ std_threshold <= 0) =>
        /\ outcome = "InvalidParameterError"
        /\ "adjusted_std_threshold" \notin DOMAIN locals
        /\ "STD_Anomaly" \notin DOMAIN data

\* C9 as stated: on an empty, single-sample or non-numeric scan the call
\* fails before parameter selection, leaving no statistics and no derived
\* column on the table.
C9_FailFast ==
    (Called /\ (dtype = "object" \/ Len(Power) < 2)) =>
        /\ outcome \notin {"none", "returned"}
        /\ "power_range" \notin DOMAIN locals
        /\ ParamKeys \cap DOMAIN attrs = {}
        /\ DerivedColumns \cap DOMAIN data = {}

\* C10: when all power values of the scan are equal the statistical test
\* flags no sample, whatever the threshold, and std_anomaly_count is 0.
C10_ZeroStdNeverFlags ==
    (Returned /\ \A i, j \in Samples : Power[i] = Power[j]) =>
        /\ \A i \in Samples : ~std_flag(i)
        /\ attrs.std_anomaly_count = 0

\* three equal samples (standard deviation 0) run with threshold 0
C10_Witness ==
    /\ Returned
    /\ Len(Power) = 3
    /\ \A i, j \in Samples : Power[i] = Power[j]
    /\ locals.std.sq_num = 0
    /\ std_threshold = 0

C12_InputPreserved ==
    [][/\ data'["Frequency_Hz"] = data["Frequency_Hz"]
       /\ data'["Power_dB/Hz"] = data["Power_dB/Hz"]
       /\ DOMAIN data' \subseteq {"Frequency_Hz", "Power_dB/Hz"} \cup DerivedColumns
       /\ outcome' = "returned" => DerivedColumns \subseteq DOMAIN data']_vars

\* a returned table that carries the derived columns next to the input
C12_Witness ==
    /\ Returned
    /\ Len(Power) = 3
    /\ Power = csv
    /\ DerivedColumns \subseteq DOMAIN data
    /\ \E i \in Samples : data["Power_Normalized"][i].d # 0

\* C13 as stated: the statistics and flags a completed run attached to its
\* table are not changed by any later call on that table.
C13_StatsFrozen ==
    [][(Returned /\ outcome' # "none")
        => /\ attrs' = attrs
           /\ \A c \in DerivedColumns : data'[c] = data[c]]_vars

----------------------------------------------------------------------------
\* the band of the statistical test, restated from the deviations

\* n * (x_i - mean)
Dev(i) == Len(Power) * Power[i] - SeqSum(Power)

\* n^2 * sum((x - mean)^2) = n^2 (n - 1) std^2
SumDevSq == SeqSum([i \in Samples |-> Dev(i) * Dev(i)])

\* |x_i - mean| compared with |adj| * std, both squared and scaled
DevSide(i) == Dev(i) * Dev(i) * 2500 * (Len(Power) - 1)

BandSide ==
    (attrs.used_std_threshold \div 2) * (attrs.used_std_threshold \div 2)
        * SumDevSq

\* x_i > mean + adj * std or x_i < mean - adj * std; with adj < 0 the two
\* half-lines overlap and cover every value unless std = 0
OutsideBand(i) ==
    /\ Len(Power) >= 2
    /\ IF attrs.used_std_threshold >= 0
       THEN DevSide(i) > BandSide
       ELSE SumDevSq > 0 \/ Dev(i) # 0

\* C14: std_flag holds exactly for the samples strictly above
\* mean + adjusted_std_threshold * std or strictly below
\* mean - adjusted_std_threshold * std (sample standard deviation of the raw
\* power); a sample on a bound is not flagged, and samples at equal distance
\* on either side of the mean get the same flag.
C14_TwoSidedStrict ==
    Returned =>
        /\ \A i \in Samples : std_flag(i) <=> OutsideBand(i)
        /\ \A i \in Samples :
              (attrs.used_std_threshold >= 0 /\ DevSide(i) = BandSide)
                  => ~std_flag(i)
        /\ \A i, j \in Samples : Dev(i) = -Dev(j) => (std_flag(i) <=> std_flag(j))

\* the scan -50, -40, -30 run with threshold 1.0: mean -40, std 10, the
\* outer samples lie exactly on the bounds and are not flagged
C14_Witness ==
    /\ Returned
    /\ Power = <<-50, -40, -30>>
    /\ attrs.used_std_threshold = 100
    /\ DevSide(1) = BandSide /\ DevSide(3) = BandSide
    /\ ~std_flag(1) /\ ~std_flag(3)

\* C15: after a successful call the three counts equal the numbers of
\* samples flagged in the IF_Anomaly, STD_Anomaly and Anomaly columns of
\* that call, every Anomaly value is -1 or 1, and the rows the dashboard
\* selects as anomalies (Anomaly == -1) number combined_anomaly_count.
C15_CountsMatchFlags ==
    Returned =>
        /\ attrs.if_anomaly_count = Cardinality({i \in Samples : if_flag(i)})
        /\ attrs.std_anomaly_count = Cardinality({i \in Samples : std_flag(i)})
        /\ attrs.combined_anomaly_count =
               Cardinality({i \in Samples : Anomalous(i)})
        /\ \A i \in Samples : data["Anomaly"][i] \in {-1, 1}
        /\ Cardinality(AnomalyRows(data["Anomaly"])) =
               attrs.combined_anomaly_count

\* a run whose density and statistical counts differ
C15_Witness ==
    /\ Returned
    /\ attrs.if_anomaly_count = 1
    /\ attrs.std_anomaly_count = 2
    /\ attrs.combined_anomaly_count = 3

C17_AnomaliesBoundBeforeUse ==
    /\ ~view.name_error
    /\ (view.shown = "page"
          /\ (ReadsAtTrace(view.enable) \/ ReadsAtSection(view.enable)))
              => view.assigned
    /\ (view.shown = "page" /\ ~view.enable) =>
          /\ outcome = "none"
          /\ DerivedColumns \cap DOMAIN data = {}
          /\ ~view.trace
          /\ view.section = "none"

\* a non-empty scan rendered with the toggle off
C17_Witness ==
    /\ view.shown = "page"
    /\ ~view.enable
    /\ ~view.assigned
    /\ Len(Power) = 3

====
